---- MODULE Spec2Model ----
(***************************************************************************)
(* Model of cytraco's bootstrap flow: bootstrap_app and its helpers        *)
(* (src/cytraco/bootstrap.py), the TOML configuration store                *)
(* (src/cytraco/config.py), the BLE scanner (src/cytraco/trainer.py) and   *)
(* the CLI entry point (src/cytraco/cli.py).                               *)
(*                                                                         *)
(* One action per collaborator call of bootstrap_app together with the     *)
(* code that consumes its result.  Prompt answers, scan results, the       *)
(* connection check and I/O failures are inputs chosen by the environment. *)
(* Enum members are modelled by their names; same-named members of         *)
(* bootstrap.UserChoice and trainer.UserAction are identified.             *)
(***************************************************************************)
EXTENDS Integers, Sequences, FiniteSets, TLC

\* ---------------------------------------------------------------- bounds
NumAddrs == 2          \* distinct device addresses in the environment
MaxScan == 2           \* most devices one scan returns
MaxOps == 7            \* most collaborator operations in one run
MaxRuns == 2           \* process runs in one behaviour

\* ------------------------------------------------------------ data model
NoAddr == 0            \* device_address is None
NoFtp == 0             \* prompt_ftp returned None / no value
Addrs == 1..NumAddrs
Ftps == {200, 250}     \* positive thresholds the user or the file supplies

\* trainer.TrainerInfo: name and rssi are fixed per address
TrainerInfo(a) ==
    [name |-> IF a = 1 THEN "Unknown" ELSE "Trainer", address |-> a, rssi |-> 0 - (60 + a)]

NoTrainer == [name |-> "", address |-> NoAddr, rssi |-> 0]

\* model/config.py Config
Config(ftp, device_address) ==
    [ftp |-> ftp, device_address |-> device_address, demo |-> FALSE]

NoConfig == Config(NoFtp, NoAddr)

\* The configuration file at config_path
AbsentFile == [status |-> "absent", ftp |-> NoFtp, device_address |-> NoAddr]

MalformedFile == [status |-> "malformed", ftp |-> NoFtp, device_address |-> NoAddr]

ValidFile(ftp, device_address) ==
    [status |-> "valid", ftp |-> ftp, device_address |-> device_address]

\* ftp values a parseable file can hold: a positive integer, a non-positive
\* integer, or no ftp key at all (tomllib's data.get("ftp") is then None)
FileFtps == Ftps \cup {NoFtp, -5}

InitialFiles ==
    {AbsentFile, MalformedFile}
        \cup {ValidFile(f, a) : f \in FileFtps, a \in Addrs \cup {NoAddr}}

\* Results a scan can return: lists of devices with distinct addresses
ScanResults ==
    {s \in UNION {[1..k -> Addrs] : k \in 0..MaxScan} :
        \A i, j \in DOMAIN s : i # j => s[i] # s[j]}

ToTrainers(s) == [i \in DOMAIN s |-> TrainerInfo(s[i])]

\* Answer sets of the prompts
ChoiceAnswers == {"None", "CONTINUE", "RETRY", "SCAN", "EXIT"}

NoTrainersAnswers == ChoiceAnswers \cup {"DEMO"}

ConnectionFailedAnswers == ChoiceAnswers \cup {"DEMO"}

SingleTrainerAnswers == ChoiceAnswers

Op(op, who, n, ans) == [op |-> op, who |-> who, n |-> n, ans |-> ans]

\* ------------------------------------------- TomlConfig at the text level
MaxAddrLen == 2        \* longest device_address string written
MaxStoreOps == 2       \* most TomlConfig calls in one behaviour

QUOTE == "\""

BSLASH == "\\"

\* characters a device_address string is made of
AddrChars == {"A", QUOTE, BSLASH}

AddrStrings == UNION {[1..k -> AddrChars] : k \in 0..MaxAddrLen}

\* Python values of Config fields and of parsed TOML values
NoneVal == [t |-> "none", s |-> <<>>, i |-> 0]

StrVal(s) == [t |-> "str", s |-> s, i |-> 0]

IntVal(i) == [t |-> "int", s |-> <<>>, i |-> i]

\* Config(device_address=..., ftp=...)
TConfig(ftp, device_address) ==
    [ftp |-> ftp, device_address |-> device_address, demo |-> FALSE]

DigitChars == <<"0", "1", "2", "3", "4", "5", "6", "7", "8", "9">>

IsDigit(c) == \E d \in DOMAIN DigitChars : DigitChars[d] = c

DigitValue(c) == (CHOOSE d \in DOMAIN DigitChars : DigitChars[d] = c) - 1

\* decimal digits of a natural number
RECURSIVE Digits(_)
Digits(n) ==
    IF n < 10 THEN <<DigitChars[n + 1]>>
    ELSE Digits(n \div 10) \o <<DigitChars[(n % 10) + 1]>>

\* f"{config.ftp}" for an int
FormatInt(n) == IF n < 0 THEN <<"-">> \o Digits(0 - n) ELSE Digits(n)

Line(key, raw) == [key |-> key, raw |-> raw]

\* write_file: the lines of the file, the device_address between quotes as
\* it is, the ftp line only when ftp is not None
FormatConfig(c) ==
    <<Line("device_address", <<QUOTE>> \o c.device_address.s \o <<QUOTE>>)>>
        \o (IF c.ftp.t # "none" THEN <<Line("ftp", FormatInt(c.ftp.i))>> ELSE <<>>)

Parsed(ok, val) == [ok |-> ok, val |-> val]

\* tomllib: a basic string after its opening quote; a backslash must start
\* an escape sequence, the closing quote must end the line
RECURSIVE ParseBasicString(_, _)
ParseBasicString(rest, acc) ==
    IF rest = <<>> THEN Parsed(FALSE, NoneVal)
    ELSE IF Head(rest) = QUOTE
         THEN IF Tail(rest) = <<>> THEN Parsed(TRUE, StrVal(acc))
              ELSE Parsed(FALSE, NoneVal)
    ELSE IF Head(rest) = BSLASH
         THEN IF Len(rest) >= 2 /\ rest[2] \in {QUOTE, BSLASH}
              THEN ParseBasicString(Tail(Tail(rest)), Append(acc, rest[2]))
              ELSE Parsed(FALSE, NoneVal)
    ELSE ParseBasicString(Tail(rest), Append(acc, Head(rest)))

RECURSIVE ParseDigits(_, _)
ParseDigits(ds, acc) ==
    IF ds = <<>> THEN acc
    ELSE ParseDigits(Tail(ds), 10 * acc + DigitValue(Head(ds)))

\* tomllib: a decimal integer, optional sign, no leading zero
ParseInteger(raw) ==
    LET signed == raw # <<>> /\ Head(raw) \in {"-", "+"}
        body == IF signed THEN Tail(raw) ELSE raw
        wellformed == /\ body # <<>>
                      /\ \A k \in DOMAIN body : IsDigit(body[k])
                      /\ Len(body) > 1 => body[1] # "0" IN
    IF ~wellformed THEN Parsed(FALSE, NoneVal)
    ELSE IF signed /\ Head(raw) = "-"
         THEN Parsed(TRUE, IntVal(0 - ParseDigits(body, 0)))
         ELSE Parsed(TRUE, IntVal(ParseDigits(body, 0)))

\* tomllib: the value of one key = value line
ParseValue(raw) ==
    IF raw = <<>> THEN Parsed(FALSE, NoneVal)
    ELSE IF Head(raw) = QUOTE THEN ParseBasicString(Tail(raw), <<>>)
    ELSE ParseInteger(raw)

\* tomllib.load succeeds: every value parses and no key is defined twice
ParseOk(lines) ==
    /\ \A k \in DOMAIN lines : ParseValue(lines[k].raw).ok
    /\ \A j, k \in DOMAIN lines : j # k => lines[j].key # lines[k].key

\* data.get(key)
DataGet(lines, key) ==
    LET at == {k \in DOMAIN lines : lines[k].key = key} IN
    IF at = {} THEN NoneVal ELSE ParseValue(lines[CHOOSE k \in at : TRUE].raw).val

\* the store: parent directory, file and its lines
Store(dir, exists, lines) == [dir |-> dir, exists |-> exists, lines |-> lines]

\* TomlConfig.load_file at the text level
TomlLoadFile(st) ==
    IF ~st.exists \/ ~ParseOk(st.lines)
    THEN [raised |-> TRUE, config |-> TConfig(NoneVal, NoneVal)]
    ELSE [raised |-> FALSE,
          config |-> TConfig(DataGet(st.lines, "ftp"),
                             DataGet(st.lines, "device_address"))]

\* write_file that creates the parent directory before it looks at the address
TomlWriteFileLateCheck(st, c, mk_ok, io_ok) ==
    IF ~st.dir /\ ~mk_ok THEN [raised |-> TRUE, store |-> st]
    ELSE IF c.device_address.t = "none"
         THEN [raised |-> TRUE, store |-> Store(TRUE, st.exists, st.lines)]
    ELSE IF ~io_ok THEN [raised |-> TRUE, store |-> Store(TRUE, st.exists, st.lines)]
    ELSE [raised |-> FALSE, store |-> Store(TRUE, TRUE, FormatConfig(c))]

\* TomlConfig.write_file at the text level: mk_ok = FALSE makes creating the
\* parent directory fail, io_ok = FALSE makes write_text fail
TomlWriteFile(st, c, mk_ok, io_ok) ==
    IF c.device_address.t = "none" THEN [raised |-> TRUE, store |-> st]
    ELSE IF ~st.dir /\ ~mk_ok THEN [raised |-> TRUE, store |-> st]
    ELSE IF ~io_ok THEN [raised |-> TRUE, store |-> Store(TRUE, st.exists, st.lines)]
    ELSE [raised |-> FALSE, store |-> Store(TRUE, TRUE, FormatConfig(c))]

\* Configs handed to write_file
ArgConfigs ==
    {TConfig(f, a) : f \in {NoneVal} \cup {IntVal(n) : n \in {200, 0, -5}},
                     a \in {NoneVal} \cup {StrVal(x) : x \in AddrStrings}}

\* files found on disk before the first call
InitialStores ==
    {Store(d, FALSE, <<>>) : d \in BOOLEAN}
        \cup {Store(TRUE, TRUE, <<Line("device_address", <<"A">>)>>)}
        \cup {Store(TRUE, TRUE, a \o f) :
                a \in {<<>>, <<Line("device_address", <<QUOTE, "A", QUOTE>>)>>},
                f \in {<<>>} \cup {<<Line("ftp", r)>> :
                          r \in {<<"2", "0", "0">>, <<"0">>, <<"-", "5">>,
                                 <<QUOTE, "A", QUOTE>>}}}

TomlIdle ==
    [store |-> Store(FALSE, FALSE, <<>>), arg |-> TConfig(NoneVal, NoneVal),
     ret |-> TConfig(NoneVal, NoneVal), last |-> "idle", last2 |-> "idle", n |-> 0]

VARIABLES
    pc,               \* position in app() / bootstrap_app
    file,             \* the configuration file on disk
    file0,            \* the file as it was when the run started
    config,           \* bootstrap_app's local config
    ftp_value,        \* bootstrap_app's local ftp_value
    trainers,         \* result of the latest scan
    selected_trainer, \* bootstrap_app's local selected_trainer
    outcome,          \* "running", "completed", "cancelled" or "error"
    errkind,          \* exception class that ended the run, "" if none
    exit_code,        \* process exit code, -1 while running
    log,              \* collaborator operations of this run, in order
    run,              \* number of the current process run
    prev,             \* summary of the previous run
    toml,             \* TomlConfig exercised on its own: store, argument, result
    via,              \* how the latest prompt got its answer
    args,             \* cli.CliArgs of the process
    ui,               \* a TerminalSetup prompt reading its input
    meter,            \* a DemoPowerMeter and its generation task
    ble               \* BleakTrainerScanner.scan on its own: devices, result

vars == <<pc, file, file0, config, ftp_value, trainers, selected_trainer,
          outcome, errkind, exit_code, log, run, prev, toml, via, args, ui,
          meter, ble>>

\* the parts exercised on their own stay as they are during a bootstrap run
parts == <<toml, ui, meter, ble>>

\* the bootstrap run stays as it is while a part is exercised on its own
bootstrap == <<pc, file, file0, config, ftp_value, trainers, selected_trainer,
               outcome, errkind, exit_code, log, run, prev, via, args>>

UiIdle == [prompt |-> "none", seen |-> <<>>, ret |-> "idle", trainers |-> <<>>]

MeterIdle == [state |-> "none"]

BleIdle == [devices |-> <<>>, ret |-> <<>>, state |-> "none"]

\* cli.CliArgs
CliArgs(demo) == [demo |-> demo]

NoPrev == [outcome |-> "none", file |-> AbsentFile, reached |-> FALSE]

Init ==
    /\ pc = "start"
    /\ file \in InitialFiles
    /\ file0 = file
    /\ config = NoConfig
    /\ ftp_value = NoFtp
    /\ trainers = <<>>
    /\ selected_trainer = NoTrainer
    /\ outcome = "running"
    /\ errkind = ""
    /\ exit_code = -1
    /\ log = <<>>
    /\ run = 1
    /\ prev = NoPrev
    /\ toml = TomlIdle
    /\ via = ""
    /\ args \in {CliArgs(d) : d \in BOOLEAN}
    /\ ui = UiIdle
    /\ meter = MeterIdle
    /\ ble = BleIdle

\* ------------------------------------------------- collaborator operations
\* load_file that silently discards a file it cannot parse
LoadFileDiscards(f) ==
    IF f.status = "valid"
    THEN [raised |-> FALSE, config |-> Config(f.ftp, f.device_address)]
    ELSE [raised |-> FALSE, config |-> NoConfig]

\* TomlConfig.load_file: a Config from the file's values, or ConfigError
LoadFile(f) ==
    IF f.status = "valid"
    THEN [raised |-> FALSE, config |-> Config(f.ftp, f.device_address)]
    ELSE [raised |-> TRUE, config |-> NoConfig]

\* write_file that leaves out the ftp line
WriteFileNoFtp(f, c, io_ok) ==
    IF c.device_address = NoAddr THEN [raised |-> TRUE, file |-> f]
    ELSE IF io_ok THEN [raised |-> FALSE, file |-> ValidFile(NoFtp, c.device_address)]
    ELSE [raised |-> TRUE, file |-> f]

\* TomlConfig.write_file: refuses a Config without device_address; otherwise
\* the file holds device_address and ftp, unless the write itself fails
\* (io_ok = FALSE: PermissionError, the file is left as it was)
WriteFile(f, c, io_ok) ==
    IF c.device_address = NoAddr THEN [raised |-> TRUE, file |-> f]
    ELSE IF io_ok THEN [raised |-> FALSE, file |-> ValidFile(c.ftp, c.device_address)]
    ELSE [raised |-> TRUE, file |-> f]

\* scan that swallows the discovery failure and reports no devices
ScanSwallowsError(ble_ok, s) ==
    IF ble_ok THEN [raised |-> FALSE, trainers |-> ToTrainers(s)]
    ELSE [raised |-> FALSE, trainers |-> <<>>]

\* BleakTrainerScanner.scan: the discovered trainers, or DeviceError when
\* discovery fails (ble_ok = FALSE)
Scan(ble_ok, s) ==
    IF ble_ok THEN [raised |-> FALSE, trainers |-> ToTrainers(s)]
    ELSE [raised |-> TRUE, trainers |-> <<>>]

\* ------------------------------------------------- decisions of ui/setup.py
\* what makes a prompt return: the user's answer, Ctrl-C or end of input
InputEvents == {"answer", "interrupt", "eof"}

\* TerminalSetup: except (KeyboardInterrupt, EOFError) returns the prompt's
\* exit answer
SignalAtPrompt(ev, exit_answer) == [raised |-> FALSE, ans |-> exit_answer]

\* what the prompt hands to bootstrap_app for an input event
Answered(ev, answer, exit_answer) ==
    IF ev = "answer" THEN [raised |-> FALSE, ans |-> answer]
    ELSE SignalAtPrompt(ev, exit_answer)

\* ------------------------------------------------ decisions of bootstrap.py
\* bootstrap_app that asks for the threshold whether or not the file exists
ThresholdSourceAlwaysPrompt(f) == "prompt_ftp"

\* bootstrap_app: config_path.exists() decides between load_file and prompt_ftp
ThresholdSource(f) == IF f.status # "absent" THEN "load_file" ELSE "prompt_ftp"

\* bootstrap_app without the check for a cancelled threshold prompt
FtpNextNoCheck(v) == "select"

\* bootstrap_app: ftp_value is None -> return None
FtpNext(v) == IF v = NoFtp THEN "cancelled" ELSE "select"

\* _select_trainer that goes to discovery whatever the configuration holds
SelectEntryAlwaysScan(c) == "scan"

\* _select_trainer: test the configured trainer if present, else scan
SelectEntry(c) == IF c.device_address # NoAddr THEN "test" ELSE "scan"

\* _test_configured_trainer: no scan unless the connection check succeeded
TestNextScansAnyway(connected) == "confirm_scan"

TestNextGivesUp(connected) == IF ~connected THEN "cancelled" ELSE "confirm_scan"

TestNext(connected) == IF ~connected THEN "reconnect" ELSE "confirm_scan"

\* address search that takes the configured trainer to be there
FindTrainerAssumesPresent(ts, address) == TrainerInfo(address)

\* address search that takes the first scanned trainer whatever its address
FindTrainerFirst(ts, address) == IF ts = <<>> THEN NoTrainer ELSE Head(ts)

\* _test_configured_trainer: first scanned trainer with the address
RECURSIVE FindTrainer(_, _)
FindTrainer(ts, address) ==
    IF ts = <<>> THEN NoTrainer
    ELSE IF Head(ts).address = address THEN Head(ts)
    ELSE FindTrainer(Tail(ts), address)

\* result of _test_configured_trainer: a trainer goes up to bootstrap_app,
\* None leads to the connection-failed prompt
ConfirmNext(trainer) == IF trainer # NoTrainer THEN "selected" ELSE "reconnect"

\* _handle_unreachable_trainer that tests the address again on 'scan'
ConnectionFailedNextScanRetests(choice) ==
    IF choice = "None" THEN "cancelled"
    ELSE IF choice \in {"RETRY", "SCAN"} THEN "test"
    ELSE "cancelled"

\* _handle_unreachable_trainer
ConnectionFailedNext(choice) ==
    IF choice = "None" THEN "cancelled"
    ELSE IF choice = "RETRY" THEN "test"
    ELSE IF choice = "SCAN" THEN "scan"
    ELSE "cancelled"

\* the str "scan" that _handle_unreachable_trainer returns in place of a
\* trainer; it has no address, for which -1 stands
ScanSentinel == [name |-> "scan", address |-> -1, rssi |-> 0]

\* _handle_unreachable_trainer: the value it returns when its loop ends
\* with the user's exit (None) or with 'scan' (the sentinel)
UnreachableResult(branch) == IF branch = "scan" THEN ScanSentinel ELSE NoTrainer

\* _select_trainer that hands on whatever is not None
SelectTrainerOnUnchecked(result) ==
    IF result = NoTrainer THEN [next |-> "cancelled", ret |-> NoTrainer]
    ELSE [next |-> "selected", ret |-> result]

\* _select_trainer on the result of _handle_unreachable_trainer: None is
\* returned, a trainer is returned, the sentinel leads to the scan flow
SelectTrainerOn(result) ==
    IF result = NoTrainer THEN [next |-> "cancelled", ret |-> NoTrainer]
    ELSE IF result # ScanSentinel THEN [next |-> "selected", ret |-> result]
    ELSE [next |-> "scan", ret |-> NoTrainer]

\* prompt choice without the single-trainer branch
PromptForNoSingle(ts) ==
    IF Len(ts) = 0 THEN "prompt_none" ELSE "prompt_multi"

\* _scan_and_select_trainer: which prompt follows a scan
PromptFor(ts) ==
    IF Len(ts) = 0 THEN "prompt_none"
    ELSE IF Len(ts) = 1 THEN "prompt_single"
    ELSE "prompt_multi"

\* _scan_and_select_trainer, len(trainers) == 0
NoTrainersNext(choice) ==
    IF choice = "None" \/ choice # "RETRY" THEN "cancelled" ELSE "scan"

\* _scan_and_select_trainer, len(trainers) == 1
SingleTrainerNext(choice) ==
    IF choice = "None" THEN "cancelled"
    ELSE IF choice = "CONTINUE" THEN "selected"
    ELSE "scan"

\* bootstrap_app without the check for a cancelled selection
SelectedNextAlwaysWrite(sel) == "write"

\* bootstrap_app: selected_trainer is None -> return None, else save
SelectedNext(sel) == IF sel = NoTrainer THEN "cancelled" ELSE "write"

\* bootstrap_app that returns the config although write_file raised
WriteNextIgnore(raised) == "completed"

\* bootstrap_app that tries the write again when it raised
WriteNextRetry(raised) == IF raised THEN "write" ELSE "completed"

\* bootstrap_app: write_file raising ends the run, else return config
WriteNext(raised) == IF raised THEN "raise" ELSE "completed"

\* _run_app that ignores the demo flag
RunEntryIgnoresFlag(a) == "bootstrap_app"

\* cli._run_app: which bootstrap function the arguments select
RunEntry(a) == IF a.demo THEN "bootstrap_demo_mode" ELSE "bootstrap_app"

\* exit code that reports an interrupt like any other error
ExitCodeFlat(o, e) == IF e # "" THEN 1 ELSE 0

\* cli.app: exit code of the process
ExitCode(o, e) ==
    IF e \in {"ConfigError", "DeviceError"} THEN 1
    ELSE IF e = "KeyboardInterrupt" THEN 130
    ELSE 0

\* ------------------------------------------------ decisions of trainer.py
DefaultFtp == 300

\* exception class TomlConfig.load_file raises, whatever went wrong
LoadError(f) == "ConfigError"

\* detect_trainer that accepts the first of several trainers
DetectNextAtLeastOne(ts) == IF Len(ts) = 0 THEN "raise" ELSE "detect_load"

\* detect_trainer: exactly one trainer, else DeviceError
DetectNext(ts) ==
    IF Len(ts) = 0 THEN "raise"
    ELSE IF Len(ts) > 1 THEN "raise"
    ELSE "detect_load"

\* detect_trainer that starts from the default threshold whatever was loaded
DetectConfigDefault(r, kind) ==
    IF r.raised /\ kind # "FileNotFoundError"
    THEN [raised |-> TRUE, config |-> NoConfig]
    ELSE [raised |-> FALSE, config |-> Config(DefaultFtp, NoAddr)]

\* detect_trainer: the loaded config; FileNotFoundError is the only exception
\* replaced by a default config, any other one propagates
DetectConfig(r, kind) ==
    IF ~r.raised THEN [raised |-> FALSE, config |-> r.config]
    ELSE IF kind = "FileNotFoundError"
         THEN [raised |-> FALSE, config |-> Config(DefaultFtp, NoAddr)]
    ELSE [raised |-> TRUE, config |-> NoConfig]

\* ------------------------------------------------------------------ steps
Goto(next, sel) ==
    LET target == IF next = "selected" THEN SelectedNext(sel) ELSE next IN
    /\ selected_trainer' = IF next = "selected" THEN sel ELSE selected_trainer
    /\ IF target = "cancelled"
       THEN pc' = "done" /\ outcome' = "cancelled"
       ELSE pc' = target /\ outcome' = outcome
    /\ errkind' = errkind

Raise(kind) ==
    /\ pc' = "done"
    /\ outcome' = "error"
    /\ errkind' = kind
    /\ selected_trainer' = selected_trainer

CanCall == Len(log) < MaxOps

\* bootstrap_app: config_path.exists() -> config_handler.load_file
LoadConfig ==
    /\ pc = "start" /\ ThresholdSource(file) = "load_file" /\ CanCall
    /\ RunEntry(args) = "bootstrap_app"
    /\ LET r == LoadFile(file) IN
       /\ log' = Append(log, Op("load", "bootstrap_app", 0,
                                IF r.raised THEN "ConfigError" ELSE "ok"))
       /\ config' = r.config
       /\ IF r.raised THEN Raise("ConfigError")
          ELSE Goto(SelectEntry(r.config), NoTrainer)
    /\ UNCHANGED <<parts, args, via, file, file0, ftp_value, trainers, exit_code, run, prev>>

\* bootstrap_app: no file -> setup_ui.prompt_ftp
PromptFtp ==
    /\ pc = "start" /\ ThresholdSource(file) = "prompt_ftp" /\ CanCall
    /\ RunEntry(args) = "bootstrap_app"
    /\ \E ev \in InputEvents, typed \in Ftps \cup {NoFtp} :
       LET r == Answered(ev, typed, NoFtp)
           v == r.ans IN
       /\ ev # "answer" => typed = NoFtp
       /\ via' = ev
       /\ log' = Append(log, Op("prompt_ftp", "bootstrap_app", 0,
                                IF r.raised THEN "KeyboardInterrupt"
                                ELSE IF v = NoFtp THEN "None" ELSE "value"))
       /\ ftp_value' = IF r.raised THEN ftp_value ELSE v
       /\ config' = IF r.raised \/ v = NoFtp THEN config ELSE Config(v, NoAddr)
       /\ IF r.raised THEN Raise("KeyboardInterrupt")
          ELSE IF FtpNext(v) = "cancelled" THEN Goto("cancelled", NoTrainer)
          ELSE Goto(SelectEntry(Config(v, NoAddr)), NoTrainer)
    /\ UNCHANGED <<parts, args, file, file0, trainers, exit_code, run, prev>>

\* _test_configured_trainer: trn.check_connection(address)
CheckConnection ==
    /\ pc = "test" /\ CanCall
    /\ \E connected \in BOOLEAN :
       /\ log' = Append(log, Op("connect", "_test_configured_trainer",
                                config.device_address,
                                IF connected THEN "True" ELSE "False"))
       /\ Goto(TestNext(connected), NoTrainer)
    /\ UNCHANGED <<parts, args, via, file, file0, config, ftp_value, trainers, exit_code, run, prev>>

\* the test under way was called by _handle_unreachable_trainer after a
\* 'retry' answer, not by _select_trainer itself
InUnreachableLoop ==
    Len(log) >= 2 /\ log[Len(log) - 1].op = "prompt_connection_failed"

\* _test_configured_trainer: trn.scan_for_trainers() and the address search
ConfirmScan ==
    /\ pc = "confirm_scan" /\ CanCall
    /\ \E ble_ok \in BOOLEAN, s \in ScanResults :
       LET r == Scan(ble_ok, s)
           t == FindTrainer(r.trainers, config.device_address) IN
       /\ trainers' = r.trainers
       /\ log' = Append(log, Op("scan", "_test_configured_trainer", Len(r.trainers),
                                IF ~ble_ok THEN "fail"
                                ELSE IF t # NoTrainer THEN "found" ELSE "missing"))
       /\ IF r.raised THEN Raise("DeviceError")
          ELSE IF ConfirmNext(t) = "selected" /\ InUnreachableLoop
               THEN LET d == SelectTrainerOn(t) IN Goto(d.next, d.ret)
          ELSE Goto(ConfirmNext(t), t)
    /\ UNCHANGED <<parts, args, via, file, file0, config, ftp_value, exit_code, run, prev>>

\* _handle_unreachable_trainer: setup_ui.prompt_connection_failed(address)
PromptConnectionFailed ==
    /\ pc = "reconnect" /\ CanCall
    /\ \E ev \in InputEvents, typed \in ConnectionFailedAnswers :
       LET r == Answered(ev, typed, "EXIT")
           choice == r.ans IN
       /\ ev # "answer" => typed = "EXIT"
       /\ via' = ev
       /\ log' = Append(log, Op("prompt_connection_failed",
                                "_handle_unreachable_trainer",
                                config.device_address,
                                IF r.raised THEN "KeyboardInterrupt" ELSE choice))
       /\ IF r.raised THEN Raise("KeyboardInterrupt")
          ELSE IF ConnectionFailedNext(choice) = "test" THEN Goto("test", NoTrainer)
          ELSE LET d == SelectTrainerOn(UnreachableResult(ConnectionFailedNext(choice))) IN
               Goto(d.next, d.ret)
    /\ UNCHANGED <<parts, args, file, file0, config, ftp_value, trainers, exit_code, run, prev>>

\* _scan_and_select_trainer: trn.scan_for_trainers()
SelectionScan ==
    /\ pc = "scan" /\ CanCall
    /\ \E ble_ok \in BOOLEAN, s \in ScanResults :
       LET r == Scan(ble_ok, s) IN
       /\ trainers' = r.trainers
       /\ log' = Append(log, Op("scan", "_scan_and_select_trainer", Len(r.trainers),
                                IF ~ble_ok THEN "fail" ELSE "ok"))
       /\ IF r.raised THEN Raise("DeviceError")
          ELSE Goto(PromptFor(r.trainers), NoTrainer)
    /\ UNCHANGED <<parts, args, via, file, file0, config, ftp_value, exit_code, run, prev>>

\* _scan_and_select_trainer: setup_ui.prompt_no_trainers()
PromptNoTrainers ==
    /\ pc = "prompt_none" /\ CanCall
    /\ via' = "answer"
    /\ \E choice \in NoTrainersAnswers :
       /\ log' = Append(log, Op("prompt_no_trainers", "_scan_and_select_trainer",
                                0, choice))
       /\ Goto(NoTrainersNext(choice), NoTrainer)
    /\ UNCHANGED <<parts, args, file, file0, config, ftp_value, trainers, exit_code, run, prev>>

\* _scan_and_select_trainer: setup_ui.prompt_single_trainer(trainers[0])
PromptSingleTrainer ==
    /\ pc = "prompt_single" /\ CanCall
    /\ via' = "answer"
    /\ \E choice \in SingleTrainerAnswers :
       /\ log' = Append(log, Op("prompt_single_trainer", "_scan_and_select_trainer",
                                trainers[1].address, choice))
       /\ Goto(SingleTrainerNext(choice), trainers[1])
    /\ UNCHANGED <<parts, args, file, file0, config, ftp_value, trainers, exit_code, run, prev>>

\* _scan_and_select_trainer: setup_ui.prompt_trainer_selection(trainers)
PromptTrainerSelection ==
    /\ pc = "prompt_multi" /\ CanCall
    /\ via' = "answer"
    /\ \E selected \in {trainers[i] : i \in DOMAIN trainers} \cup {NoTrainer} :
       /\ log' = Append(log, Op("prompt_trainer_selection",
                                "_scan_and_select_trainer", selected.address,
                                IF selected = NoTrainer THEN "None" ELSE "value"))
       /\ Goto("selected", selected)
    /\ UNCHANGED <<parts, args, file, file0, config, ftp_value, trainers, exit_code, run, prev>>

\* bootstrap_app: set device_address, config_handler.write_file, return config
WriteConfig ==
    /\ pc = "write" /\ CanCall
    /\ \E io_ok \in BOOLEAN :
       LET c == [config EXCEPT !.device_address = selected_trainer.address]
           r == WriteFile(file, c, io_ok) IN
       /\ config' = c
       /\ file' = r.file
       /\ log' = Append(log, Op("write", "bootstrap_app", c.device_address,
                                IF r.raised THEN "ConfigError" ELSE "ok"))
       /\ IF WriteNext(r.raised) = "raise" THEN Raise("ConfigError")
          ELSE /\ pc' = IF WriteNext(r.raised) = "completed" THEN "done"
                        ELSE WriteNext(r.raised)
               /\ outcome' = IF WriteNext(r.raised) = "completed" THEN "completed"
                             ELSE outcome
               /\ errkind' = errkind
               /\ selected_trainer' = selected_trainer
    /\ UNCHANGED <<parts, args, via, file0, ftp_value, trainers, exit_code, run, prev>>

\* bootstrap_demo_mode ends Completed with demo mode on
DemoCompleted(c) ==
    /\ config' = [c EXCEPT !.demo = TRUE]
    /\ pc' = "done"
    /\ outcome' = "completed"
    /\ UNCHANGED <<errkind, selected_trainer>>

\* bootstrap_demo_mode, a configuration is on disk: load it, no device step
DemoLoadConfig ==
    /\ pc = "start" /\ file.status # "absent" /\ CanCall
    /\ RunEntry(args) = "bootstrap_demo_mode"
    /\ LET r == LoadFile(file) IN
       /\ log' = Append(log, Op("load", "bootstrap_demo_mode", 0,
                                IF r.raised THEN "ConfigError" ELSE "ok"))
       /\ IF r.raised THEN config' = r.config /\ Raise("ConfigError")
          ELSE DemoCompleted(r.config)
    /\ UNCHANGED <<parts, args, via, file, file0, ftp_value, trainers, exit_code,
                   run, prev>>

\* bootstrap_demo_mode, no configuration on disk: the threshold is asked for
DemoPromptFtp ==
    /\ pc = "start" /\ file.status = "absent" /\ CanCall
    /\ RunEntry(args) = "bootstrap_demo_mode"
    /\ \E ev \in InputEvents, typed \in Ftps \cup {NoFtp} :
       LET r == Answered(ev, typed, NoFtp)
           v == r.ans IN
       /\ ev # "answer" => typed = NoFtp
       /\ via' = ev
       /\ log' = Append(log, Op("prompt_ftp", "bootstrap_demo_mode", 0,
                                IF r.raised THEN "KeyboardInterrupt"
                                ELSE IF v = NoFtp THEN "None" ELSE "value"))
       /\ ftp_value' = IF r.raised THEN ftp_value ELSE v
       /\ IF r.raised THEN config' = config /\ Raise("KeyboardInterrupt")
          ELSE IF FtpNext(v) = "cancelled"
               THEN config' = config /\ Goto("cancelled", NoTrainer)
          ELSE DemoCompleted(Config(v, NoAddr))
    /\ UNCHANGED <<parts, args, file, file0, trainers, exit_code, run, prev>>

\* detect_trainer returns or raises to its caller
Return(o, kind, sel) ==
    /\ pc' = "returned"
    /\ outcome' = o
    /\ errkind' = kind
    /\ selected_trainer' = sel

\* detect_trainer: BleakTrainerScanner().scan() and the count check
DetectScan ==
    /\ pc = "start" /\ CanCall
    /\ \E ble_ok \in BOOLEAN, s \in ScanResults :
       LET r == Scan(ble_ok, s) IN
       /\ trainers' = r.trainers
       /\ log' = Append(log, Op("scan", "detect_trainer", Len(r.trainers),
                                IF ~ble_ok THEN "fail" ELSE "ok"))
       /\ IF r.raised \/ DetectNext(r.trainers) = "raise"
          THEN Return("error", "DeviceError", NoTrainer)
          ELSE /\ pc' = DetectNext(r.trainers)
               /\ UNCHANGED <<outcome, errkind, selected_trainer>>
    /\ UNCHANGED <<parts, args, via, file, file0, config, ftp_value, exit_code, run, prev>>

\* detect_trainer: config_handler.load_file inside try / except
DetectLoad ==
    /\ pc = "detect_load" /\ CanCall
    /\ LET r == LoadFile(file)
           d == DetectConfig(r, LoadError(file)) IN
       /\ log' = Append(log, Op("load", "detect_trainer", 0,
                                IF r.raised THEN LoadError(file) ELSE "ok"))
       /\ config' = d.config
       /\ IF d.raised THEN Return("error", LoadError(file), NoTrainer)
          ELSE /\ pc' = "detect_write"
               /\ UNCHANGED <<outcome, errkind, selected_trainer>>
    /\ UNCHANGED <<parts, args, via, file, file0, ftp_value, trainers, exit_code, run, prev>>

\* detect_trainer: set device_address, write_file, return trainer
DetectWrite ==
    /\ pc = "detect_write" /\ CanCall
    /\ \E io_ok \in BOOLEAN :
       LET trainer == trainers[1]
           c == [config EXCEPT !.device_address = trainer.address]
           r == WriteFile(file, c, io_ok) IN
       /\ config' = c
       /\ file' = r.file
       /\ log' = Append(log, Op("write", "detect_trainer", c.device_address,
                                IF r.raised THEN "ConfigError" ELSE "ok"))
       /\ IF r.raised THEN Return("error", "ConfigError", NoTrainer)
          ELSE Return("completed", "", trainer)
    /\ UNCHANGED <<parts, args, via, file0, ftp_value, trainers, exit_code, run, prev>>

\* Ctrl-C while bootstrap_app awaits a device operation: asyncio.run raises
\* KeyboardInterrupt in cli.app
Interrupt ==
    /\ pc \in {"test", "confirm_scan", "scan"}
    /\ Raise("KeyboardInterrupt")
    /\ UNCHANGED <<parts, args, via, file, file0, config, ftp_value, trainers, exit_code, log,
                   run, prev>>

\* cli.app: the process ends with its exit code
Exit ==
    /\ pc = "done"
    /\ pc' = "exited"
    /\ exit_code' = ExitCode(outcome, errkind)
    /\ UNCHANGED <<parts, args, via, file, file0, config, ftp_value, trainers, selected_trainer,
                   outcome, errkind, log, run, prev>>

\* first _test_configured_trainer of a run returned the configured trainer
Reconnected(l) ==
    /\ Len(l) >= 3
    /\ l[2].op = "connect" /\ l[2].ans = "True"
    /\ l[3].op = "scan" /\ l[3].ans = "found"

\* the program is started again on the file the previous run left
Restart ==
    /\ pc \in {"exited", "returned"} /\ run < MaxRuns
    /\ pc' = "start"
    /\ run' = run + 1
    /\ prev' = [outcome |-> outcome, file |-> file, reached |-> Reconnected(log)]
    /\ file0' = file
    /\ config' = NoConfig
    /\ ftp_value' = NoFtp
    /\ trainers' = <<>>
    /\ selected_trainer' = NoTrainer
    /\ outcome' = "running"
    /\ errkind' = ""
    /\ exit_code' = -1
    /\ log' = <<>>
    /\ via' = ""
    /\ UNCHANGED <<file, parts, args>>

Next ==
    \/ LoadConfig
    \/ PromptFtp
    \/ CheckConnection
    \/ ConfirmScan
    \/ PromptConnectionFailed
    \/ SelectionScan
    \/ PromptNoTrainers
    \/ PromptSingleTrainer
    \/ PromptTrainerSelection
    \/ WriteConfig
    \/ DemoLoadConfig
    \/ DemoPromptFtp
    \/ DetectScan
    \/ DetectLoad
    \/ DetectWrite
    \/ Interrupt
    \/ Exit
    \/ Restart

Spec == Init /\ [][Next]_vars

\* ------------------------------------- TomlConfig called on its own
\* no bootstrap run is going on
NoBootstrap ==
    /\ file = AbsentFile
    /\ file0 = AbsentFile
    /\ config = NoConfig
    /\ ftp_value = NoFtp
    /\ trainers = <<>>
    /\ selected_trainer = NoTrainer
    /\ outcome = "running"
    /\ errkind = ""
    /\ exit_code = -1
    /\ log = <<>>
    /\ run = 1
    /\ prev = NoPrev
    /\ via = ""
    /\ args = CliArgs(FALSE)

TomlInit ==
    /\ pc = "store"
    /\ NoBootstrap
    /\ \E st \in InitialStores : toml = [TomlIdle EXCEPT !.store = st]
    /\ ui = UiIdle /\ meter = MeterIdle /\ ble = BleIdle

\* TomlConfig().write_file(path, c)
TomlWrite ==
    /\ pc = "store" /\ toml.n < MaxStoreOps
    /\ \E c \in ArgConfigs, io_ok \in BOOLEAN,
          mk_ok \in (IF toml.store.dir THEN {TRUE} ELSE BOOLEAN) :
       LET r == TomlWriteFile(toml.store, c, mk_ok, io_ok) IN
       toml' = [store |-> r.store, arg |-> c, ret |-> TomlIdle.ret,
                last |-> IF r.raised THEN "write_err" ELSE "write_ok",
                last2 |-> toml.last, n |-> toml.n + 1]
    /\ UNCHANGED <<bootstrap, ui, meter, ble>>

\* TomlConfig().load_file(path)
TomlLoad ==
    /\ pc = "store" /\ toml.n < MaxStoreOps
    /\ LET r == TomlLoadFile(toml.store) IN
       toml' = [toml EXCEPT !.ret = r.config,
                            !.last = IF r.raised THEN "load_err" ELSE "load_ok",
                            !.last2 = toml.last, !.n = toml.n + 1]
    /\ UNCHANGED <<bootstrap, ui, meter, ble>>

TomlNext == TomlWrite \/ TomlLoad

TomlSpec == TomlInit /\ [][TomlNext]_vars

\* ------------------------------- BleakTrainerScanner.scan called on its own
UnknownName == StrVal(<<"U", "n", "k", "n", "o", "w", "n">>)

\* names a discovered device reports: none, an empty one, or a real one
DeviceNames == {NoneVal, StrVal(<<>>), StrVal(<<"K">>), UnknownName}

Rssis == {-40, -80}

\* one (BLEDevice, AdvertisementData) pair of the discovery result
Device(name, address, rssi) == [name |-> name, address |-> address, rssi |-> rssi]

\* discovery results: devices with distinct addresses, in dict order
Discoveries ==
    {d \in UNION {[1..k -> {Device(n, a, r) : n \in DeviceNames, a \in Addrs,
                                              r \in Rssis}] : k \in 0..MaxScan} :
        \A i, j \in DOMAIN d : i # j => d[i].address # d[j].address}

\* name mapping that hands the reported name through unchanged
PresentedNameAsReported(name) == name

\* d.name or "Unknown"
PresentedName(name) ==
    IF name = NoneVal \/ name = StrVal(<<>>) THEN UnknownName ELSE name

\* the list comprehension of scan: one TrainerInfo per discovered device
ScanTrainers(devices) ==
    [i \in DOMAIN devices |->
        [name |-> PresentedName(devices[i].name),
         address |-> devices[i].address, rssi |-> devices[i].rssi]]

ScanInit ==
    /\ pc = "ble"
    /\ NoBootstrap
    /\ \E d \in Discoveries : ble = [devices |-> d, ret |-> <<>>, state |-> "idle"]
    /\ toml = TomlIdle /\ ui = UiIdle /\ meter = MeterIdle

\* BleakTrainerScanner().scan(): discovery succeeds (ble_ok) or raises
BleScan ==
    /\ pc = "ble" /\ ble.state = "idle"
    /\ \E ble_ok \in BOOLEAN :
       ble' = IF ble_ok
              THEN [ble EXCEPT !.ret = ScanTrainers(ble.devices), !.state = "returned"]
              ELSE [ble EXCEPT !.state = "DeviceError"]
    /\ UNCHANGED <<bootstrap, toml, ui, meter>>

ScanNext == BleScan

ScanSpec == ScanInit /\ [][ScanNext]_vars

\* --------------------------------------- TerminalSetup reading its input
MaxInputs == 3         \* most inputs one prompt reads

\* an input event: a typed line, Ctrl-C (KeyboardInterrupt) or end of input
Typed(chars) == [k |-> "line", s |-> chars]

CtrlC == [k |-> "interrupt", s |-> <<>>]

EndOfInput == [k |-> "eof", s |-> <<>>]

TypedLines ==
    {<<"e">>, <<"E">>, <<" ", "e">>, <<"r">>, <<"s">>, <<"c">>, <<"x">>, <<>>,
     <<"0">>, <<"-", "5">>, <<"1">>, <<" ", "2">>, <<"3">>, <<"2", "5", "0">>,
     <<"2", ".", "5">>}

Inputs == {Typed(l) : l \in TypedLines} \cup {CtrlC, EndOfInput}

\* str.strip
RECURSIVE StripLeft(_)
StripLeft(s) == IF s # <<>> /\ Head(s) = " " THEN StripLeft(Tail(s)) ELSE s

RECURSIVE StripRight(_)
StripRight(s) ==
    IF s # <<>> /\ s[Len(s)] = " " THEN StripRight(SubSeq(s, 1, Len(s) - 1)) ELSE s

Strip(s) == StripRight(StripLeft(s))

\* str.lower on the letters of the input alphabet
LowerChar(c) ==
    CASE c = "E" -> "e" [] c = "R" -> "r" [] c = "S" -> "s" [] c = "C" -> "c"
      [] OTHER -> c

Lower(s) == [i \in DOMAIN s |-> LowerChar(s[i])]

\* int(value): optional sign and decimal digits, ValueError otherwise
PyInt(s) ==
    LET signed == s # <<>> /\ Head(s) \in {"-", "+"}
        body == IF signed THEN Tail(s) ELSE s IN
    IF body = <<>> \/ \E k \in DOMAIN body : ~IsDigit(body[k])
    THEN Parsed(FALSE, NoneVal)
    ELSE IF signed /\ Head(s) = "-"
         THEN Parsed(TRUE, IntVal(0 - ParseDigits(body, 0)))
         ELSE Parsed(TRUE, IntVal(ParseDigits(body, 0)))

\* what a prompt returns: None, an int, a UserAction or a TrainerSelected
Ret(t, v) == [t |-> t, v |-> v]

Pending == Ret("pending", 0)

Rejected == Ret("rejected", 0)

RetNone == Ret("none", 0)

Action(a) == Ret("action", a)

Selected(trainer) == Ret("selected", trainer)

\* threshold check that lets zero through
FtpAcceptsZero(n) == n >= 0

\* prompt_ftp: if ftp_value > 0
FtpAccepts(n) == n > 0

\* one pass of prompt_ftp's loop on a typed line
FtpOnLine(line) ==
    LET value == Strip(line)
        n == PyInt(value) IN
    IF Lower(value) = <<"e">> THEN RetNone
    ELSE IF n.ok /\ FtpAccepts(n.val.i) THEN Ret("int", n.val.i)
    ELSE Rejected

\* one pass of prompt_reconnect's loop on a typed line
ReconnectOnLine(line) ==
    LET value == Lower(Strip(line)) IN
    IF value = <<"r">> THEN Action("RETRY")
    ELSE IF value = <<"s">> THEN Action("SCAN")
    ELSE IF value = <<"e">> THEN Action("EXIT")
    ELSE IF value = <<"c">> THEN Action("DEMO")
    ELSE Rejected

\* one pass of _prompt_no_trainers' loop on a typed line
NoTrainersOnLine(line) ==
    LET value == Lower(Strip(line)) IN
    IF value = <<"r">> THEN Action("RETRY")
    ELSE IF value = <<"e">> THEN Action("EXIT")
    ELSE IF value = <<"c">> THEN Action("DEMO")
    ELSE Rejected

\* one pass of _prompt_single_trainer's loop on a typed line
SingleTrainerOnLine(line, trainer) ==
    LET value == Lower(Strip(line)) IN
    IF value = <<"r">> THEN Action("RETRY")
    ELSE IF value = <<"e">> THEN Action("EXIT")
    ELSE IF value = <<"c">> THEN Selected(trainer)
    ELSE Rejected

\* the trainers ordered by falling signal strength
SortedByRssi(ts) ==
    CHOOSE p \in [DOMAIN ts -> {ts[i] : i \in DOMAIN ts}] :
        /\ \A i, j \in DOMAIN ts : i # j => p[i] # p[j]
        /\ \A i, j \in DOMAIN ts : i < j => p[i].rssi >= p[j].rssi

\* selection from the list sorted by signal strength
PickTrainerBySignal(ts, idx) == SortedByRssi(ts)[idx]

\* trainers[idx - 1] of a Python list, for 1 <= idx <= len(trainers)
PickTrainer(ts, idx) == ts[idx]

\* one pass of _prompt_multiple_trainers' loop on a typed line
MultipleTrainersOnLine(line, ts) ==
    LET value == Lower(Strip(line))
        idx == PyInt(value) IN
    IF value = <<"r">> THEN Action("RETRY")
    ELSE IF value = <<"e">> THEN Action("EXIT")
    ELSE IF idx.ok /\ 1 <= idx.val.i /\ idx.val.i <= Len(ts)
         THEN Selected(PickTrainer(ts, idx.val.i))
    ELSE Rejected

\* exit answer that is None at every prompt
ExitAnswerNone(loop) == RetNone

\* except (KeyboardInterrupt, EOFError): what each loop returns
ExitAnswer(loop) == IF loop = "prompt_ftp" THEN RetNone ELSE Action("EXIT")

\* prompt_trainer_selection: the loop the length of the list selects
SelectionLoop(ts) ==
    IF Len(ts) = 0 THEN "_prompt_no_trainers"
    ELSE IF Len(ts) = 1 THEN "_prompt_single_trainer"
    ELSE "_prompt_multiple_trainers"

\* prompt_trainer_selection: the numbered lines printed for several trainers
Listing(ts) ==
    IF Len(ts) < 2 THEN <<>>
    ELSE [i \in DOMAIN ts |-> [index |-> i, name |-> ts[i].name,
                                address |-> ts[i].address]]

UiCall(prompt, ts) ==
    [prompt |-> prompt, loop |-> "", shown |-> <<>>, seen |-> <<>>,
     ret |-> Pending, trainers |-> ts]

UiInit ==
    /\ pc = "ui"
    /\ NoBootstrap
    /\ \/ \E p \in {"prompt_ftp", "prompt_reconnect"} : ui = UiCall(p, <<>>)
       \/ \E sc \in ScanResults : ui = UiCall("prompt_trainer_selection", ToTrainers(sc))
    /\ toml = TomlIdle /\ meter = MeterIdle /\ ble = BleIdle

\* the head of a prompt method: its text is printed and its loop entered
UiBegin ==
    /\ pc = "ui" /\ ui.loop = ""
    /\ ui' = [ui EXCEPT !.loop = IF ui.prompt = "prompt_trainer_selection"
                                  THEN SelectionLoop(ui.trainers) ELSE ui.prompt,
                        !.shown = Listing(ui.trainers)]
    /\ UNCHANGED <<bootstrap, toml, meter, ble>>

\* one pass of a loop: input() delivers ev, the loop returns or asks again
UiPass(loop, ev, result) ==
    /\ pc = "ui" /\ ui.loop = loop /\ ui.ret.t = "pending"
    /\ Len(ui.seen) < MaxInputs
    /\ ui' = [ui EXCEPT !.seen = Append(ui.seen, ev),
                        !.ret = IF ev.k # "line" THEN ExitAnswer(loop)
                                ELSE IF result.t = "rejected" THEN Pending
                                ELSE result]
    /\ UNCHANGED <<bootstrap, toml, meter, ble>>

PromptFtpInput ==
    \E ev \in Inputs : UiPass("prompt_ftp", ev, FtpOnLine(ev.s))

PromptReconnectInput ==
    \E ev \in Inputs : UiPass("prompt_reconnect", ev, ReconnectOnLine(ev.s))

NoTrainersInput ==
    \E ev \in Inputs : UiPass("_prompt_no_trainers", ev, NoTrainersOnLine(ev.s))

SingleTrainerInput ==
    \E ev \in Inputs :
        UiPass("_prompt_single_trainer", ev,
               SingleTrainerOnLine(ev.s, ui.trainers[1]))

MultipleTrainersInput ==
    \E ev \in Inputs :
        UiPass("_prompt_multiple_trainers", ev,
               MultipleTrainersOnLine(ev.s, ui.trainers))

UiNext ==
    \/ UiBegin
    \/ PromptFtpInput
    \/ PromptReconnectInput
    \/ NoTrainersInput
    \/ SingleTrainerInput
    \/ MultipleTrainersInput

UiSpec == UiInit /\ [][UiNext]_vars

\* ---------------------------------------------------------------------
\* DemoPowerMeter: the simulated power source and its generation task.
\* Powers are whole watts; the drift, a float in the code, is kept in
\* half watts so that int() has a fraction to truncate.
\* ---------------------------------------------------------------------
MaxStarts == 3         \* most calls of start on one meter
MaxQueue == 2          \* most unread items the queue holds at once

MaxVariation == 15     \* random.randint(-15, 15)
MaxDrift == 30         \* max(-30, min(30, drift))
MaxDriftStep == 2      \* random.uniform(-2, 2)

BasePowers == {20, 200}

\* the draws of one sample: the extremes of the variation, and a drift
\* step of 1.5 W either way (in half watts)
Variations == {-MaxVariation, MaxVariation}

DriftSteps == {-(2 * MaxDriftStep - 1), 2 * MaxDriftStep - 1}

PowerData(power) == [power |-> power]

\* int(x) of Python on x = half2 / 2: truncation towards zero
PyIntOfHalves(half2) == IF half2 >= 0 THEN half2 \div 2 ELSE -((-half2) \div 2)

Max2(a, b) == IF a >= b THEN a ELSE b

Min2(a, b) == IF a <= b THEN a ELSE b

ClampDriftNone(drift) == drift

\* drift = max(-30, min(30, drift)), in half watts
ClampDrift(drift) == Max2(-(2 * MaxDrift), Min2(2 * MaxDrift, drift))

\* power = max(0, int(base_power + variation + drift))
SamplePower(base, variation, drift) ==
    Max2(0, PyIntOfHalves(2 * (base + variation) + drift))

\* DemoPowerMeter.__init__
NewMeter(base) ==
    [state |-> "meter", base_power |-> base, running |-> FALSE, task |-> 0,
     alive |-> {}, drift |-> <<>>, queue |-> <<>>, starts |-> 0,
     created |-> 0, last |-> "init", produced |-> FALSE, awaiting |-> <<>>]

\* asyncio.create_task(self._generate_power()): a new task, its drift 0.0
CreateTask(m) ==
    [m EXCEPT !.running = TRUE,
              !.task = m.created + 1,
              !.created = m.created + 1,
              !.alive = m.alive \cup {m.created + 1},
              !.drift = [t \in m.alive \cup {m.created + 1} |->
                            IF t \in m.alive THEN m.drift[t] ELSE 0],
              !.produced = FALSE]

StartedAlways(m) == CreateTask(m)

\* start: nothing when already running, else the flag and a new task
Started(m) == IF m.running THEN m ELSE CreateTask(m)

StoppedKeepsTask(m) == [m EXCEPT !.running = FALSE]

\* stop: the flag cleared, the task cancelled and awaited, the reference dropped
Stopped(m) ==
    IF m.task # 0
    THEN [m EXCEPT !.running = FALSE,
                   !.task = 0,
                   !.alive = m.alive \ {m.task},
                   !.drift = [t \in m.alive \ {m.task} |-> m.drift[t]]]
    ELSE [m EXCEPT !.running = FALSE]

MeterInit ==
    /\ pc = "meter"
    /\ NoBootstrap
    /\ \E base \in BasePowers : meter = NewMeter(base)
    /\ toml = TomlIdle /\ ui = UiIdle /\ ble = BleIdle

MeterStart ==
    /\ pc = "meter"
    /\ meter.starts < MaxStarts
    /\ meter.running \/ Len(meter.queue) < MaxQueue
    /\ meter' = [Started(meter) EXCEPT !.starts = meter.starts + 1, !.last = "start"]
    /\ UNCHANGED <<bootstrap, toml, ui, ble>>

MeterStop ==
    /\ pc = "meter"
    /\ meter' = [Stopped(meter) EXCEPT !.last = "stop"]
    /\ UNCHANGED <<bootstrap, toml, ui, ble>>

\* one pass of the loop of _generate_power in a live task: the flag is
\* tested, a sample drawn and queued, and the task sleeps
GeneratePower ==
    /\ pc = "meter"
    /\ Len(meter.queue) < MaxQueue
    /\ \E t \in meter.alive :
          IF meter.running
          THEN \E variation \in Variations, step \in DriftSteps :
                  LET drift == ClampDrift(meter.drift[t] + step) IN
                  meter' = [meter EXCEPT
                              !.drift[t] = drift,
                              !.queue = Append(meter.queue,
                                  PowerData(SamplePower(meter.base_power, variation, drift))),
                              !.produced = TRUE]
          ELSE meter' = [meter EXCEPT
                              !.alive = meter.alive \ {t},
                              !.drift = [u \in meter.alive \ {t} |-> meter.drift[u]]]
    /\ UNCHANGED <<bootstrap, toml, ui, ble>>

\* the reader of meter.queue takes the oldest item
MeterGet ==
    /\ pc = "meter"
    /\ meter.queue # <<>>
    /\ meter' = [meter EXCEPT !.queue = Tail(meter.queue)]
    /\ UNCHANGED <<bootstrap, toml, ui, ble>>

MeterNext ==
    \/ MeterStart
    \/ MeterStop
    \/ GeneratePower
    \/ MeterGet

MeterSpec == MeterInit /\ [][MeterNext]_vars

\* the event loop runs a task that is ready
MeterFairSpec == MeterSpec /\ WF_vars(GeneratePower)

\* ---------------------------------------------------------------------
\* DemoPowerMeter with callers that run concurrently on the event loop:
\* stop suspends at `await self._task` and other coroutines run before it
\* resumes; start has no await and runs in one piece.
\* ---------------------------------------------------------------------
MaxPending == 1        \* most stop calls suspended at once

\* stop up to its await: the flag cleared and the task cancelled, which
\* then generates nothing more; with no task stop is over at once
StopCancelled(m) ==
    IF m.task # 0
    THEN [m EXCEPT !.running = FALSE,
                   !.alive = m.alive \ {m.task},
                   !.drift = [t \in m.alive \ {m.task} |-> m.drift[t]],
                   !.awaiting = Append(m.awaiting, m.task)]
    ELSE [m EXCEPT !.running = FALSE]

\* stop after its await: self._task = None, whatever it refers to by now
StopResumed(m) == [m EXCEPT !.task = 0, !.awaiting = Tail(m.awaiting)]

MeterStopCancel ==
    /\ pc = "meter"
    /\ Len(meter.awaiting) < MaxPending
    /\ meter' = [StopCancelled(meter) EXCEPT !.last = "stop"]
    /\ UNCHANGED <<bootstrap, toml, ui, ble>>

MeterStopResume ==
    /\ pc = "meter"
    /\ meter.awaiting # <<>>
    /\ meter' = StopResumed(meter)
    /\ UNCHANGED <<bootstrap, toml, ui, ble>>

MeterRaceNext ==
    \/ MeterStart
    \/ MeterStopCancel
    \/ MeterStopResume
    \/ GeneratePower
    \/ MeterGet

MeterRaceSpec == MeterInit /\ [][MeterRaceNext]_vars

TypeOK ==
    /\ pc \in {"store", "ble", "ui", "meter", "start", "test", "confirm_scan", "reconnect", "scan", "prompt_none",
               "prompt_single", "prompt_multi", "write", "done", "exited",
               "detect_load", "detect_write", "returned"}
    /\ outcome \in {"running", "completed", "cancelled", "error"}
    /\ errkind \in {"", "ConfigError", "DeviceError", "KeyboardInterrupt"}
    /\ via \in InputEvents \cup {""}
    /\ args \in {CliArgs(d) : d \in BOOLEAN}
    /\ exit_code \in {-1, 0, 1, 130}
    /\ Len(log) <= MaxOps
    /\ run \in 1..MaxRuns

\* ---------------------------------------------------------------- claims
Done == pc \in {"done", "exited", "returned"}

Last == log[Len(log)]

HasOp(op) == \E i \in DOMAIN log : log[i].op = op

IsDevicePrompt(e) ==
    e.op \in {"prompt_connection_failed", "prompt_no_trainers",
              "prompt_single_trainer", "prompt_trainer_selection"}

IsPrompt(e) == e.op = "prompt_ftp" \/ IsDevicePrompt(e)

IsSelectionPrompt(e) ==
    e.op \in {"prompt_no_trainers", "prompt_single_trainer",
              "prompt_trainer_selection"}

\* the run was cancelled by the answer to a device prompt
CancelledAtDevicePrompt ==
    outcome = "cancelled" /\ Len(log) > 0 /\ IsDevicePrompt(Last)

\* the user gave the exit answer (None) at a device prompt
ExitedAtDevicePrompt ==
    \E i \in DOMAIN log : IsDevicePrompt(log[i]) /\ log[i].ans = "None"

\* C1: a run that ends Cancelled at a device prompt (reconnect, no-devices,
\* single-device, multiple-devices) never invoked write_file, and the file
\* is exactly what it was before the run, also after a fresh threshold or
\* after 'scan' was chosen at the reconnect prompt.
C1_NoWriteOnDeviceCancel ==
    (CancelledAtDevicePrompt \/ ExitedAtDevicePrompt)
        => (~HasOp("write") /\ file = file0)

C1_Witness ==
    /\ CancelledAtDevicePrompt
    /\ IsSelectionPrompt(Last)
    /\ \E i \in DOMAIN log :
          log[i].op = "prompt_connection_failed" /\ log[i].ans = "SCAN"
    /\ file0.status = "valid"

\* the user cancelled at the threshold prompt of a run without a file
CancelledAtFtp ==
    /\ file0.status = "absent"
    /\ Len(log) > 0 /\ log[1].op = "prompt_ftp" /\ log[1].ans = "None"

\* C2: with no configuration file, cancelling at the threshold prompt ends
\* the run Cancelled with no scan, connection check or write (the prompt is
\* the only collaborator call), and the file still does not exist.
C2_CancelAtFtpLeavesNoFile ==
    CancelledAtFtp =>
        /\ Len(log) = 1
        /\ Done /\ outcome = "cancelled"
        /\ config = NoConfig
        /\ file = AbsentFile

C2_Witness == CancelledAtFtp /\ pc = "exited" /\ exit_code = 0

\* C3: within one run the configuration is written at most once and the
\* write is the last collaborator operation: nothing is logged after it.
C3_WriteIsLast ==
    \A i \in DOMAIN log : log[i].op = "write" => i = Len(log)

C3_Witness ==
    /\ pc = "exited" /\ Len(log) >= 5
    /\ Last.op = "write" /\ Last.ans = "ok" /\ outcome = "completed"
    /\ \E i \in DOMAIN log : log[i].ans = "RETRY"

\* a run without a file in which a threshold was entered and a scanned
\* device was then selected or confirmed
FreshSetupSelected ==
    /\ file0.status = "absent"
    /\ ftp_value # NoFtp
    /\ selected_trainer # NoTrainer
    /\ Done /\ outcome # "error"

\* C4: no file, threshold T entered, device D selected or confirmed: the
\* run completes with demo = false, the returned and the persisted
\* configuration are exactly {T, D.address}, and the file exists.  (A run
\* whose write_file raises ends in ConfigError instead.)
C4_FreshSetupPersistsSelection ==
    FreshSetupSelected =>
        /\ outcome = "completed"
        /\ config = [ftp |-> ftp_value,
                     device_address |-> selected_trainer.address,
                     demo |-> FALSE]
        /\ file = ValidFile(ftp_value, selected_trainer.address)
        /\ \E i \in DOMAIN trainers : trainers[i] = selected_trainer

C4_Witness ==
    /\ FreshSetupSelected
    /\ ftp_value = 250
    /\ file = ValidFile(250, 2)
    /\ log[Len(log) - 1].op = "prompt_trainer_selection"

\* the run loaded a configuration with an address and its first connection
\* check succeeded
FirstCheckSucceeded ==
    /\ file0.status = "valid" /\ file0.device_address # NoAddr
    /\ Len(log) >= 2 /\ log[2].op = "connect" /\ log[2].ans = "True"

DemoChosen == \E i \in DOMAIN log : log[i].ans = "DEMO"

StartThreshold == IF file0.status = "valid" THEN file0.ftp ELSE ftp_value

\* C7: choosing demo at the no-devices or the reconnect-failed prompt makes
\* bootstrap_app return a Completed result with demo_mode = true, the
\* threshold the run started with and no device address.
C7_Original ==
    \A i \in DOMAIN log :
        (log[i].op \in {"prompt_no_trainers", "prompt_connection_failed"}
            /\ log[i].ans = "DEMO") =>
            /\ i = Len(log)
            /\ outcome = "completed"
            /\ config = [ftp |-> StartThreshold, device_address |-> NoAddr,
                         demo |-> TRUE]

\* the selection prompt that belongs to a scan result of n devices
WantedPrompt(n) ==
    IF n = 0 THEN "prompt_no_trainers"
    ELSE IF n = 1 THEN "prompt_single_trainer"
    ELSE "prompt_trainer_selection"

WantedPc(n) ==
    IF n = 0 THEN "prompt_none"
    ELSE IF n = 1 THEN "prompt_single"
    ELSE "prompt_multi"

\* scan i is followed by exactly one selection prompt, the one for its size
OnePromptAfter(i) ==
    IF i = Len(log) THEN pc = WantedPc(log[i].n)
    ELSE /\ log[i + 1].op = WantedPrompt(log[i].n)
         /\ (i + 2 <= Len(log)) => ~IsSelectionPrompt(log[i + 2])

Count(P(_)) == Cardinality({i \in DOMAIN log : P(log[i])})

ReturnedScan(e) == e.op = "scan" /\ e.ans # "fail"

ReturnedSelectionScan(e) ==
    ReturnedScan(e) /\ e.who = "_scan_and_select_trainer"

C9_Original ==
    \A i \in DOMAIN log :
        (IsPrompt(log[i]) /\ log[i].ans \in {"None", "EXIT"}) =>
            (i = Len(log) /\ Done /\ outcome = "cancelled")

\* a scan of this run hit a transport failure
ScanFailedAt(i) == log[i].op = "scan" /\ log[i].ans = "fail"

\* C10: a scan transport failure ends the run with DeviceError: the failed
\* scan is the last collaborator operation (no no-devices prompt, no
\* rescan), nothing is written, and the process exits with a non-zero code.
C10_ScanFailureIsFatal ==
    \A i \in DOMAIN log :
        ScanFailedAt(i) =>
            /\ i = Len(log)
            /\ Done /\ outcome = "error" /\ errkind = "DeviceError"
            /\ ~HasOp("write") /\ file = file0
            /\ pc = "exited" => exit_code = 1

C10_Witness ==
    /\ pc = "exited" /\ exit_code = 1
    /\ Len(log) >= 4 /\ ScanFailedAt(Len(log))
    /\ Last.who = "_scan_and_select_trainer"

\* the run is a bootstrap_app run that has made its first collaborator call
BootstrapRun == Len(log) > 0 /\ log[1].who = "bootstrap_app"

\* C11: when the file exists but cannot be parsed, load_file fails with
\* ConfigError and the run is fatal: the failed load is the only collaborator
\* call (no threshold prompt, no device operation), the file is not
\* overwritten and the process exits with 1.  When the file does not exist
\* the run starts with the threshold prompt instead.
C11_MalformedIsFatal ==
    /\ (BootstrapRun /\ file0.status = "malformed") =>
          /\ log = <<Op("load", "bootstrap_app", 0, "ConfigError")>>
          /\ Done /\ outcome = "error" /\ errkind = "ConfigError"
          /\ file = file0
          /\ pc = "exited" => exit_code = 1
    /\ (BootstrapRun /\ file0.status = "absent") =>
          (log[1].op = "prompt_ftp" /\ ~HasOp("load"))

C11_Witness ==
    /\ BootstrapRun /\ file0 = MalformedFile
    /\ pc = "exited" /\ exit_code = 1 /\ errkind = "ConfigError"

\* C12 (TomlSpec): load_file succeeds on a file without device_address whose
\* ftp is a positive integer, and never returns a Config whose ftp is
\* missing, not an integer or not positive.
C12_Original ==
    /\ toml.last = "load_ok" => (toml.ret.ftp.t = "int" /\ toml.ret.ftp.i > 0)
    /\ (toml.last \in {"load_ok", "load_err"}
            /\ toml.store = Store(TRUE, TRUE, <<Line("ftp", <<"2", "0", "0">>)>>))
          => (toml.last = "load_ok" /\ toml.ret.device_address = NoneVal)

\* a write_file call with a Config whose device_address is None
WroteNoneAddress ==
    /\ toml.last \in {"write_ok", "write_err"}
    /\ toml.arg.device_address = NoneVal

\* C15 (TomlSpec): write_file with a Config whose device_address is None
\* raises ConfigError and leaves the store untouched: the parent directory,
\* the existence of the file and its content are what they were.
C15_NoneAddressWriteLeavesStore ==
    [][(toml'.n = toml.n + 1 /\ WroteNoneAddress')
          => (toml'.last = "write_err" /\ toml'.store = toml.store)]_vars

C15_Witness ==
    /\ WroteNoneAddress /\ toml.last = "write_err"
    /\ toml.store = Store(FALSE, FALSE, <<>>)
    /\ toml.arg.ftp = IntVal(200)

\* C16 (TomlSpec): for every Config with a device address and a threshold,
\* write_file followed by load_file returns a Config with the same
\* device_address and the same ftp.
C16_Original ==
    (/\ toml.last \in {"load_ok", "load_err"}
     /\ toml.last2 = "write_ok"
     /\ toml.arg.device_address.t = "str" /\ toml.arg.ftp.t = "int")
        => /\ toml.last = "load_ok"
           /\ toml.ret.device_address = toml.arg.device_address
           /\ toml.ret.ftp = toml.arg.ftp

\* a successful write_file call is the latest operation of the run
WroteFile == Len(log) > 0 /\ Last.op = "write" /\ Last.ans = "ok"

\* C13: after any sequence of bootstrap_app and detect_trainer runs, every
\* configuration written to the store has a positive threshold; a missing
\* or non-positive threshold is never persisted.
C13_Original ==
    WroteFile => (file.status = "valid" /\ file.ftp # NoFtp /\ file.ftp > 0)

\* bootstrap_app's write_file call number i raised
WriteFailedAt(i) ==
    /\ log[i].op = "write" /\ log[i].who = "bootstrap_app"
    /\ log[i].ans = "ConfigError"

\* C14: when write_file fails in bootstrap_app the run never completes: the
\* failed write is its last operation, the outcome is the ConfigError and
\* not a configuration, nothing of the in-memory result reaches the file,
\* and the process exits with 1.
C14_WriteFailureIsFatal ==
    \A i \in DOMAIN log :
        WriteFailedAt(i) =>
            /\ i = Len(log)
            /\ pc \in {"done", "exited"}
            /\ outcome = "error" /\ errkind = "ConfigError"
            /\ file = file0
            /\ pc = "exited" => exit_code = 1

C14_Witness ==
    /\ pc = "exited" /\ exit_code = 1
    /\ WriteFailedAt(Len(log))
    /\ selected_trainer # NoTrainer /\ file0 = AbsentFile

\* the run is a detect_trainer call that has made its scan
DetectRun == Len(log) > 0 /\ log[1].who = "detect_trainer"

\* detect_trainer's scan succeeded and found k trainers
DetectFound(k) == DetectRun /\ log[1].ans = "ok" /\ log[1].n = k

IsWrite(e) == e.op = "write"

\* C17: when the scan finds exactly one trainer, detect_trainer writes the
\* configuration exactly once with that trainer's address and returns the
\* trainer, both when a configuration existed and when no file existed, in
\* which case the file gets the default threshold.  (Runs in which the
\* write itself fails or the file cannot be parsed are left aside.)
C17_Original ==
    (/\ DetectFound(1) /\ pc = "returned"
     /\ file0.status \in {"valid", "absent"}
     /\ ~(Last.op = "write" /\ Last.ans = "ConfigError"))
        => /\ Count(IsWrite) = 1
           /\ outcome = "completed" /\ selected_trainer = trainers[1]
           /\ file.status = "valid" /\ file.device_address = trainers[1].address
           /\ file0.status = "absent" => file.ftp = DefaultFtp

\* C18: detect_trainer changes only the device address of an existing
\* configuration: after its write the file holds the threshold that was
\* loaded and the address of the trainer found.
C18_DetectPreservesFtp ==
    (DetectRun /\ WroteFile)
        => /\ file0.status = "valid"
           /\ file = ValidFile(file0.ftp, trainers[1].address)
           /\ config.ftp = file0.ftp

C18_Witness ==
    /\ DetectRun /\ WroteFile /\ pc = "returned"
    /\ file0 = ValidFile(250, 2) /\ file = ValidFile(250, 1)

\* C19: when the scan finds no trainer or more than one, detect_trainer
\* raises DeviceError and the configuration is neither loaded nor written:
\* the scan is the only collaborator call and the file is unchanged.
C19_DetectNeedsExactlyOne ==
    \A k \in 0..(MaxScan + 1) :
        (DetectFound(k) /\ k # 1)
            => /\ pc = "returned"
               /\ outcome = "error" /\ errkind = "DeviceError"
               /\ Len(log) = 1 /\ config = NoConfig
               /\ file = file0

C19_Witness ==
    /\ DetectFound(2) /\ pc = "returned" /\ errkind = "DeviceError"
    /\ file0.status = "valid" /\ file = file0

\* C20: the exit code of the process is 0 when bootstrap completes or the
\* user cancels, 1 on a fatal ConfigError or DeviceError, and 130 when a
\* KeyboardInterrupt reaches cli.app; these are the only pairs of outcome
\* and exit code.
C20_ExitCodes ==
    pc = "exited" =>
        \/ outcome \in {"completed", "cancelled"} /\ errkind = "" /\ exit_code = 0
        \/ /\ outcome = "error" /\ errkind \in {"ConfigError", "DeviceError"}
           /\ exit_code = 1
        \/ outcome = "error" /\ errkind = "KeyboardInterrupt" /\ exit_code = 130

C20_Witness ==
    /\ pc = "exited" /\ exit_code = 130 /\ errkind = "KeyboardInterrupt"
    /\ Len(log) >= 2 /\ Last.op = "connect" /\ Last.ans = "True"

\* Ctrl-C ended the threshold prompt or the reconnect prompt, the latest
\* operation of the run
InterruptedAtPrompt ==
    /\ Len(log) > 0 /\ via = "interrupt"
    /\ Last.op \in {"prompt_ftp", "prompt_connection_failed"}

\* C21: a cancellation triggered by an interrupt while a prompt waits for
\* input ends the process with exit code 130, not 0.
C21_Original ==
    (InterruptedAtPrompt /\ pc = "exited") => exit_code = 130

\* a run started through cli.app with the demo flag
DemoFlagRun == args.demo /\ Len(log) > 0 /\ log[1].who # "detect_trainer"

\* the run has a threshold: loaded from the file or entered at the prompt
ThresholdKnown ==
    \E i \in DOMAIN log :
        \/ log[i].op = "load" /\ log[i].ans = "ok"
        \/ log[i].op = "prompt_ftp" /\ log[i].ans = "value"

C23_UnknownNameSubstitution ==
    ble.state = "returned" =>
        /\ Len(ble.ret) = Len(ble.devices)
        /\ \A i \in DOMAIN ble.devices :
              LET d == ble.devices[i]
                  t == ble.ret[i] IN
              /\ t.address = d.address /\ t.rssi = d.rssi
              /\ d.name = NoneVal => t.name = UnknownName
              /\ (d.name # NoneVal /\ d.name.s # <<>>) => t.name = d.name

C23_Witness ==
    /\ ble.state = "returned" /\ Len(ble.devices) = 2
    /\ ble.devices[1].name = NoneVal /\ ble.ret[1].name = UnknownName
    /\ ble.devices[2].name = StrVal(<<"K">>) /\ ble.ret[2].name = StrVal(<<"K">>)
    /\ ble.ret[1].address = 2 /\ ble.ret[1].rssi = -80

\* the inputs that mean exit: the e keyword, Ctrl-C, end of input
ExitInput(ev) ==
    \/ ev.k \in {"interrupt", "eof"}
    \/ ev \in {Typed(<<"e">>), Typed(<<"E">>), Typed(<<" ", "e">>)}

\* the positive integer a typed line stands for, 0 if it stands for none
PositiveValue(ev) ==
    CASE ev = Typed(<<"1">>) -> 1
      [] ev = Typed(<<" ", "2">>) -> 2
      [] ev = Typed(<<"3">>) -> 3
      [] ev = Typed(<<"2", "5", "0">>) -> 250
      [] OTHER -> 0

LastSeen == ui.seen[Len(ui.seen)]

\* C24: prompt_ftp returns None or a strictly positive integer; zero,
\* negative and non-integer inputs are rejected and the prompt repeats; the
\* value returned is the first positive integer of the input unless an exit
\* input (e, interrupt, end of input) comes first.
C24_PromptFtpPositiveOrNone ==
    (ui.loop = "prompt_ftp" /\ Len(ui.seen) > 0) =>
        /\ \A i \in 1..(Len(ui.seen) - 1) :
              ~ExitInput(ui.seen[i]) /\ PositiveValue(ui.seen[i]) = 0
        /\ IF ExitInput(LastSeen) THEN ui.ret = RetNone
           ELSE IF PositiveValue(LastSeen) > 0
                THEN ui.ret = Ret("int", PositiveValue(LastSeen))
           ELSE ui.ret.t = "pending"

C24_Witness ==
    /\ ui.loop = "prompt_ftp"
    /\ ui.seen = <<Typed(<<"0">>), Typed(<<"2", ".", "5">>), Typed(<<"2", "5", "0">>)>>
    /\ ui.ret = Ret("int", 250)

\* the inputs that mean retry at the selection prompts
RetryInput(ev) == ev = Typed(<<"r">>)

\* C25: at the multiple-devices prompt the devices are listed in scan-result
\* order, an input i with 1 <= i <= n selects the i-th device of the scan
\* result, and an input outside 1..n that is neither retry nor exit is
\* rejected: the prompt repeats and nothing is selected.
C25_SelectionFollowsScanOrder ==
    ui.loop = "_prompt_multiple_trainers" =>
        /\ Len(ui.shown) = Len(ui.trainers)
        /\ \A i \in DOMAIN ui.trainers :
              ui.shown[i] = [index |-> i, name |-> ui.trainers[i].name,
                             address |-> ui.trainers[i].address]
        /\ Len(ui.seen) > 0 =>
              LET i == PositiveValue(LastSeen) IN
              IF i \in 1..Len(ui.trainers) THEN ui.ret = Selected(ui.trainers[i])
              ELSE IF RetryInput(LastSeen) \/ ExitInput(LastSeen)
                   THEN ui.ret.t = "action"
              ELSE ui.ret.t = "pending"

C25_Witness ==
    /\ ui.loop = "_prompt_multiple_trainers"
    /\ ui.trainers = ToTrainers(<<2, 1>>)
    /\ ui.seen = <<Typed(<<"3">>), Typed(<<"x">>), Typed(<<"1">>)>>
    /\ ui.ret = Selected(TrainerInfo(2))

\* the closed answer set of each prompt loop
AnswerSet(loop) ==
    CASE loop = "prompt_ftp" -> {RetNone} \cup {Ret("int", n) : n \in {1, 2, 3, 250}}
      [] loop = "prompt_reconnect" ->
            {Action(a) : a \in {"RETRY", "SCAN", "EXIT", "DEMO"}}
      [] loop = "_prompt_no_trainers" -> {Action(a) : a \in {"RETRY", "EXIT", "DEMO"}}
      [] loop = "_prompt_single_trainer" ->
            {Action("RETRY"), Action("EXIT"), Selected(ui.trainers[1])}
      [] loop = "_prompt_multiple_trainers" ->
            {Action("RETRY"), Action("EXIT")}
                \cup {Selected(ui.trainers[i]) : i \in DOMAIN ui.trainers}

\* C26: every TerminalSetup prompt returns only values of its closed answer
\* set and maps each exit signal (the e keyword, a keyboard interrupt, end
\* of input) to its exit answer, None for prompt_ftp and UserAction.EXIT for
\* the other prompts, however many invalid inputs came before.
C26_ClosedAnswersAndExit ==
    (ui.loop # "" /\ Len(ui.seen) > 0) =>
        /\ \A i \in 1..(Len(ui.seen) - 1) : ~ExitInput(ui.seen[i])
        /\ ui.ret.t # "pending" => ui.ret \in AnswerSet(ui.loop)
        /\ ExitInput(LastSeen) =>
              IF ui.loop = "prompt_ftp" THEN ui.ret = RetNone
              ELSE ui.ret = Action("EXIT")

C26_Witness ==
    /\ ui.loop = "_prompt_single_trainer"
    /\ ui.seen = <<Typed(<<"x">>), Typed(<<"0">>), CtrlC>>
    /\ ui.ret = Action("EXIT")

\* ---------------------------------------------------------------------
\* DemoPowerMeter
\* ---------------------------------------------------------------------
StartCalled == meter.state = "meter" /\ meter'.starts = meter.starts + 1

\* C27: start on a meter that is already running leaves it running, with
\* the same task and no other task created.
C27_StartIsIdempotent ==
    [][(StartCalled /\ meter.running) =>
          /\ meter'.running
          /\ meter'.task = meter.task
          /\ meter'.alive = meter.alive
          /\ meter'.created = meter.created]_vars

\* start was called twice and the meter runs the one task ever created
C27_Witness ==
    /\ meter.state = "meter"
    /\ meter.starts = 2
    /\ meter.created = 1
    /\ meter.running
    /\ meter.alive = {1}

IsSuffix(s, t) ==
    /\ Len(s) <= Len(t)
    /\ s = SubSeq(t, Len(t) - Len(s) + 1, Len(t))

AfterStop == meter.state = "meter" /\ meter.last = "stop"

\* C28: after stop the meter is not running, holds no task and nothing is
\* put on the queue, the queued items leaving only by being read; a start
\* on a stopped meter makes it run a new task, and a meter that runs
\* eventually puts data on the queue unless it is stopped first.
C28_StopHaltsStartResumes ==
    /\ [](AfterStop => (~meter.running /\ meter.task = 0 /\ meter.alive = {}))
    /\ [][(AfterStop /\ meter'.last = "stop") =>
             (IsSuffix(meter'.queue, meter.queue) /\ meter'.produced = meter.produced)]_vars
    /\ [][(AfterStop /\ StartCalled) =>
             (meter'.running /\ meter'.task # 0 /\ meter'.alive = {meter'.task})]_vars
    /\ (meter.state = "meter" /\ meter.running /\ ~meter.produced)
           ~> (meter.produced \/ ~meter.running)

\* the second cycle: stopped once, started again, and the new task has
\* queued a sample behind one left from before
C28_Witness ==
    /\ meter.state = "meter"
    /\ meter.created = 2
    /\ meter.running
    /\ meter.produced
    /\ Len(meter.queue) = 2

IsTest(i) == log[i].op = "connect" /\ log[i].who = "_test_configured_trainer"

IsReconnectPrompt(i) == log[i].op = "prompt_connection_failed"

\* the test of the configured address came out negative: no connection,
\* or a connection but the address is not among the scanned trainers
Unreachable(i) ==
    \/ IsTest(i) /\ log[i].ans = "False"
    \/ /\ log[i].op = "scan" /\ log[i].who = "_test_configured_trainer"
       /\ log[i].ans = "missing"

TestedAddress(i) == IF IsTest(i) THEN log[i].n ELSE log[i - 1].n

\* C30: after a negative test the run goes on to the reconnect prompt for
\* the tested address and is not an error; after a retry answer it goes
\* on to one test of that same address, which is still the configured one.
C30_UnreachableLeadsToPromptAndRetry ==
    /\ \A i \in 1..Len(log) :
          Unreachable(i) =>
             IF i < Len(log)
             THEN IsReconnectPrompt(i + 1) /\ log[i + 1].n = TestedAddress(i)
             ELSE /\ pc = "reconnect" /\ outcome = "running"
                  /\ config.device_address = TestedAddress(i)
    /\ \A i \in 1..Len(log) :
          (IsReconnectPrompt(i) /\ log[i].ans = "RETRY") =>
             IF i < Len(log)
             THEN /\ IsTest(i + 1) /\ log[i + 1].n = log[i].n
                  /\ i + 1 < Len(log) => ~IsTest(i + 2)
             ELSE /\ pc = "test" \/ errkind = "KeyboardInterrupt"
                  /\ config.device_address = log[i].n

\* the test failed, the user retried, the test failed again, the user
\* retried again and a third test of the same address was made
C30_Witness ==
    \E i \in 1..Len(log) :
        /\ i + 4 <= Len(log)
        /\ Unreachable(i) /\ IsTest(i)
        /\ IsReconnectPrompt(i + 1) /\ log[i + 1].ans = "RETRY"
        /\ Unreachable(i + 2) /\ IsTest(i + 2)
        /\ IsReconnectPrompt(i + 3) /\ log[i + 3].ans = "RETRY"
        /\ IsTest(i + 4) /\ log[i + 4].n = log[i].n

\* ---------------------------------------------------------------------
\* from the reconnect prompt to device discovery
\* ---------------------------------------------------------------------
IsSelectionScan(i) == log[i].op = "scan" /\ log[i].who = "_scan_and_select_trainer"

\* the user answered 'scan' at the reconnect prompt logged at i
AnsweredScan(i) == IsReconnectPrompt(i) /\ log[i].ans = "SCAN"

\* the selection prompt logged at i returned a trainer
SelectedAt(i) ==
    \/ log[i].op = "prompt_single_trainer" /\ log[i].ans = "CONTINUE"
    \/ log[i].op = "prompt_trainer_selection" /\ log[i].ans = "value"

LoadedWithAddress ==
    /\ Len(log) > 0
    /\ log[1].op = "load" /\ log[1].who = "bootstrap_app" /\ log[1].ans = "ok"
    /\ file0.device_address # NoAddr

IsDeviceOp(e) == e.op \in {"connect", "scan"}

\* the run ended with the trainer the test of the stored address returned
AcceptedStored ==
    /\ outcome = "completed"
    /\ \A i \in 1..Len(log) : ~IsSelectionPrompt(log[i])

\* C32: after a configuration with a device address is loaded, the next
\* operation is the connection check of that address, so no prompt and no
\* scan comes before it; a run that completes with the stored address
\* without a selection has checked the connection and found the address
\* in a scan just before saving.
C32_StoredAddressIsTestedFirst ==
    LoadedWithAddress =>
        /\ Len(log) >= 2 =>
              /\ IsTest(2)
              /\ log[2].n = file0.device_address
        /\ Len(log) = 1 => (pc = "test" \/ errkind = "KeyboardInterrupt")
        /\ outcome = "completed" => \E i \in 1..Len(log) : IsTest(i)
        /\ AcceptedStored =>
              /\ Len(log) >= 4
              /\ IsTest(Len(log) - 2) /\ log[Len(log) - 2].ans = "True"
              /\ log[Len(log) - 2].n = file0.device_address
              /\ log[Len(log) - 1].op = "scan" /\ log[Len(log) - 1].ans = "found"
              /\ config.device_address = file0.device_address

\* the stored address was tested twice, the second time with success, and
\* the run completed with it
C32_Witness ==
    /\ LoadedWithAddress
    /\ AcceptedStored
    /\ Len(log) = 6
    /\ log[2].ans = "False"
    /\ log[3].ans = "RETRY"
    /\ file.device_address = file0.device_address

\* ---------------------------------------------------------------------
\* _test_configured_trainer
\* ---------------------------------------------------------------------
IsConfirmScan(i) == log[i].op = "scan" /\ log[i].who = "_test_configured_trainer"

\* the scan just made lists a device with the configured address
ScanHasConfigured == \E k \in DOMAIN trainers : trainers[k].address = config.device_address

\* the last operation was made by _test_configured_trainer and it returned
\* without raising
TestReturned ==
    /\ Len(log) > 0
    /\ IsTest(Len(log)) \/ (IsConfirmScan(Len(log)) /\ Last.ans # "fail")
    /\ errkind = ""

\* _test_configured_trainer has just returned a trainer to its caller
TestReturnedTrainer == TestReturned /\ pc = "write"

IsThresholdOp(e) == e.op \in {"load", "prompt_ftp"}

\* C34: a run of bootstrap_app begins with exactly one threshold
\* operation, load_file when the file exists and prompt_ftp when it does
\* not, and makes no other; every device operation comes after it.
C34_OneThresholdSource ==
    BootstrapRun =>
        /\ IsThresholdOp(log[1])
        /\ \A i \in 2..Len(log) : ~IsThresholdOp(log[i])
        /\ file0.status # "absent" => log[1].op = "load"
        /\ file0.status = "absent" => log[1].op = "prompt_ftp"
        /\ \A i \in 1..Len(log) : (IsDeviceOp(log[i]) \/ IsDevicePrompt(log[i])) => i > 1

\* the file was absent, the threshold was asked for once, device
\* operations followed and the run completed
C34_Witness ==
    /\ BootstrapRun
    /\ log[1].op = "prompt_ftp"
    /\ file0.status = "absent"
    /\ Len(log) >= 4
    /\ IsDeviceOp(log[2])
    /\ outcome = "completed"

\* ---------------------------------------------------------------------
\* what starts a scan
\* ---------------------------------------------------------------------
\* the operation logged at i leads into device discovery: a threshold
\* operation that leaves no address to test, or 'scan' at the reconnect
\* prompt
EntersDiscovery(i) ==
    \/ log[i].op = "load" /\ log[i].ans = "ok" /\ file0.device_address = NoAddr
    \/ log[i].op = "prompt_ftp" /\ log[i].ans = "value"
    \/ AnsweredScan(i)

AnsweredRetry(i) == IsPrompt(log[i]) /\ log[i].ans = "RETRY"

\* C35 as claimed: a scan of device discovery directly follows the entry
\* to discovery or a 'retry' answer, the scan inside the reachability test
\* directly follows its successful connection check, and nothing follows
\* a scan that failed.
C35_Original ==
    BootstrapRun =>
        \A i \in 1..Len(log) :
            /\ IsSelectionScan(i) => (i > 1 /\ (EntersDiscovery(i - 1) \/ AnsweredRetry(i - 1)))
            /\ IsConfirmScan(i) => (i > 1 /\ IsTest(i - 1) /\ log[i - 1].ans = "True")
            /\ (log[i].op = "scan" /\ log[i].ans = "fail") => i = Len(log)

\* ---------------------------------------------------------------------
\* progress towards a terminal outcome
\* ---------------------------------------------------------------------
\* the prompt logged at i was answered, and not by 'retry'
AnsweredOtherThanRetry(i) ==
    /\ IsPrompt(log[i])
    /\ log[i].ans \notin {"RETRY", "KeyboardInterrupt"}

\* C36 as claimed: only 'retry' answers take a run back to where it was.
\* An answer other than retry at the reconnect prompt is followed by no
\* further test and no further reconnect prompt, one at a selection prompt
\* by no further scan and no further prompt: the run is Cancelled or goes
\* on to save the selection.
C36_Original ==
    BootstrapRun =>
        \A i \in 1..Len(log) :
            AnsweredOtherThanRetry(i) =>
                /\ IsReconnectPrompt(i) =>
                      \A j \in 1..Len(log) : j > i => (~IsTest(j) /\ ~IsReconnectPrompt(j))
                /\ IsSelectionPrompt(log[i]) =>
                      \A j \in 1..Len(log) : j > i => (~IsDeviceOp(log[j]) /\ ~IsPrompt(log[j]))
                /\ (IsSelectionPrompt(log[i]) /\ i = Len(log)) =>
                      (pc = "write" \/ (Done /\ outcome = "cancelled"))

\* ---------------------------------------------------------------------
\* DemoPowerMeter under concurrent callers
\* ---------------------------------------------------------------------
\* C37 as claimed: at most one generation task is alive, and a running
\* meter's task reference is the live task.
C37_Original ==
    meter.state = "meter" =>
        /\ Cardinality(meter.alive) <= 1
        /\ meter.running => meter.task \in meter.alive

\* ---------------------------------------------------------------------
\* where the persisted address comes from
\* ---------------------------------------------------------------------
\* bootstrap_app has completed, not in demo mode
CompletedWithDevice == BootstrapRun /\ outcome = "completed" /\ ~config.demo

SelectedIsTrainer ==
    /\ selected_trainer.address \in Addrs
    /\ selected_trainer = TrainerInfo(selected_trainer.address)

\* C39: what _select_trainer returns to bootstrap_app is None or a
\* trainer, never the "scan" sentinel, and the sentinel is neither put
\* into the configuration nor written to the file.
C39_SentinelStaysInside ==
    /\ selected_trainer # ScanSentinel
    /\ selected_trainer = NoTrainer \/ SelectedIsTrainer
    /\ config.device_address # ScanSentinel.address
    /\ file.device_address # ScanSentinel.address
    /\ \A i \in 1..Len(log) : log[i].op = "write" => log[i].n \in Addrs

\* 'scan' was answered at the reconnect prompt, the sentinel took the run
\* to discovery, and a trainer selected there was saved
C39_Witness ==
    /\ outcome = "completed"
    /\ \E i \in 1..Len(log) : AnsweredScan(i) /\ IsSelectionScan(i + 1)
    /\ SelectedIsTrainer
    /\ file.device_address = selected_trainer.address

====
